---- MODULE Spec2Model ----
(***************************************************************************)
(* 4seasons: commodity seasonality desktop application.                    *)
(*                                                                         *)
(* Five state machines over one set of variables:                          *)
(*   SpecStore   the Series Store / COT Store ingest (Data Management      *)
(*               Module, project specification section 4.1);               *)
(*   SpecEngine  the Seasonality Calculation Engine (section 4.2), a pure  *)
(*               function applied to series drawn in the initial state;    *)
(*   SpecCot     the COT Metrics Calculator, a pure function applied to COT *)
(*               series drawn in the initial state;                        *)
(*   Spec        the React front end: the useSeasonality and useCOT hooks, *)
(*               the Sidebar / COTChart buttons that start them, and the   *)
(*               Tauri commands they have in flight;                       *)
(*   SpecChart   the seasonality chart: calculations and the vertical drag *)
(*               that rescales its y-axis.                                 *)
(* The Python sidecar that implements ingest and the engine is not part of *)
(* the sources at hand; those three machines follow the project            *)
(* specification (src/unnamed/part_003) and the design document.           *)
(***************************************************************************)
EXTENDS Integers, Sequences, FiniteSets, TLC

VARIABLES
    \* ---- Series Store (SpecStore)
    store,        \* file path -> sequence of stored rows [date, close]
    feed,         \* the provider's recorded rows, in the order it returns them
    last,         \* file path -> outcome of the most recent ingest call on it
    \* ---- Seasonality engine (SpecEngine)
    series,       \* the price series handed to calculate_seasonality
    cutoffYear,   \* the target year of the request
    changedYear,  \* the year whose data differs in the second series
    changedShape, \* the data that year has in the second series
    engResult,    \* SeasonalityResult for series
    engResult2,   \* SeasonalityResult for the second series
    \* ---- COT metrics calculator (SpecCot)
    cotSeries,    \* the stored COT reports handed to calculate_cot_metrics
    windowYears,  \* the trailing window of the request, in calendar years
    cotResult,    \* COTMetricsResult for cotSeries
    \* ---- front end (Spec)
    appDataDir, selectedAsset, selectedYear,
    loading, error, chartData, dataStatus, yAxisDomain,
    cotData, cotLoading, cotPeriod, cotError,
    pending,      \* the Tauri invocations in flight, each with its handler's locals
    lastCalc,     \* the result chartData was built from
    isDragging,   \* a vertical drag on the seasonality chart is in progress
    dragStart     \* where the drag started: [y, domain], or Null

storeVars  == <<store, feed, last>>
engineVars == <<series, cutoffYear, changedYear, changedShape, engResult, engResult2>>
metricsVars == <<cotSeries, windowYears, cotResult>>
uiVars     == <<appDataDir, selectedAsset, selectedYear, loading, error, chartData,
                dataStatus, yAxisDomain, cotData, cotLoading, cotPeriod, cotError,
                pending, lastCalc, isDragging, dragStart>>
dragVars   == <<isDragging, dragStart>>
vars       == <<storeVars, engineVars, metricsVars, uiVars>>

\* An optional number: Null is JavaScript null / an absent CSV cell, Num(v) a number.
Null == <<>>
Num(v) == <<v>>

(***************************************************************************)
(* Bounds of the model.                                                    *)
(***************************************************************************)
MaxDate == 2      \* dates are day numbers 1..MaxDate counted from the epoch floor
MaxFeed == 2      \* rows in the provider's recorded feed
MaxPending == 3   \* invocations in flight at once
MaxAssets == 2    \* assets of ASSETS the user can select in the model
MaxCotYears == 4  \* calendar years a COT series may cover
MaxDragSteps == 2 \* pointer positions lie 0..MaxDragSteps chart heights down the viewport
MaxDomain == 120  \* largest magnitude of a y-axis bound a drag may reach
NumDays == 3      \* day-of-year slots of a curve (365 in the program)
NumYears == 12    \* calendar years a price series may cover

(***************************************************************************)
(* Series Store: ingest(assetKey, providerSymbol, requestedThroughDate).   *)
(***************************************************************************)
\* "2000-01-01", the fetch start date of a file that does not exist yet.
EpochFloor == 1

Dates == EpochFloor..MaxDate
Closes == {100}
\* One store per asset and series type.
Files == {"gold_daily.csv", "gold_cot.csv"}

\* A row as the provider returns it: ok is FALSE when the date does not parse
\* or the close is missing or not numeric.
RawRows == [date : Dates, close : Closes, ok : BOOLEAN]

RECURSIVE SeqsUpTo(_, _)
SeqsUpTo(S, n) ==
    IF n = 0 THEN {<<>>}
    ELSE LET shorter == SeqsUpTo(S, n - 1)
         IN  shorter \cup {Append(q, e) : q \in {r \in shorter : Len(r) = n - 1}, e \in S}

Feeds == SeqsUpTo(RawRows, MaxFeed)

LastDate(rows) == IF rows = <<>> THEN Null ELSE Num(rows[Len(rows)].date)

\* Mutant: the file's last date is fetched again.
FetchStartDate_SameDay(rows) ==
    IF rows = <<>> THEN EpochFloor ELSE rows[Len(rows)].date

\* Mutant: the existing file is ignored and everything is fetched again.
FetchStartDate_AlwaysEpoch(rows) == EpochFloor

\* Mutant: a file that does not exist yet is fetched from the day before the
\* epoch floor.
FetchStartDate_BeforeFloor(rows) ==
    IF rows = <<>> THEN EpochFloor - 1 ELSE rows[Len(rows)].date + 1

\* Logic steps 1-3: last_date + 1 day if the file exists, else 2000-01-01.
FetchStartDate(rows) ==
    IF rows = <<>> THEN EpochFloor ELSE rows[Len(rows)].date + 1

\* The provider's answer for a date range: the recorded rows inside it.
ProviderFetch(from, through) ==
    SelectSeq(feed, LAMBDA r : from <= r.date /\ r.date <= through)

\* Row validation: keeps a row when it parses and its date is strictly greater
\* than the date of the previous row emitted; prev is Null before the first.
RECURSIVE Validate(_, _)
Validate(raw, prev) ==
    IF raw = <<>> THEN <<>>
    ELSE LET r == Head(raw)
             keep == r.ok /\ (prev = Null \/ r.date > prev[1])
         IN  IF keep
             THEN <<[date |-> r.date, close |-> r.close]>> \o Validate(Tail(raw), Num(r.date))
             ELSE Validate(Tail(raw), prev)

\* Mutant: the file is overwritten with the rows just fetched.
Merge_Overwrite(rows, new) == new

\* Logic step 5: append the new rows to the existing CSV, never overwrite.
Merge(rows, new) == rows \o new

ProviderModes == {"ok", "unreachable", "malformed"}

\* Mutant: the rows parsed before the payload turned out malformed are kept.
IngestOutcome_PartialMerge(rows, through, mode) ==
    LET start == FetchStartDate(rows)
        raw   == ProviderFetch(start, through)
        new   == Validate(raw, Null)
    IN  IF start > through
        THEN [success |-> TRUE, rows_added |-> 0, last_date |-> LastDate(rows),
              message |-> "Data is already up to date", rows |-> rows]
        ELSE IF mode = "unreachable"
        THEN [success |-> FALSE, rows_added |-> 0, last_date |-> LastDate(rows),
              message |-> "Provider unreachable", rows |-> rows]
        ELSE IF mode = "malformed" \/ raw = <<>>
        THEN [success |-> FALSE, rows_added |-> 0, last_date |-> LastDate(rows),
              message |-> "Malformed or empty response", rows |-> Merge(rows, new)]
        ELSE [success |-> TRUE, rows_added |-> Len(new),
              last_date |-> LastDate(Merge(rows, new)),
              message |-> "", rows |-> Merge(rows, new)]

\* Mutant: the provider is queried before the start date is compared with the
\* requested date.
IngestOutcome_QueryFirst(rows, through, mode) ==
    LET start == FetchStartDate(rows)
        raw   == ProviderFetch(start, through)
        new   == Validate(raw, Null)
    IN  IF mode = "unreachable"
        THEN [success |-> FALSE, rows_added |-> 0, last_date |-> LastDate(rows),
              message |-> "Provider unreachable", rows |-> rows]
        ELSE IF mode = "malformed" \/ raw = <<>>
        THEN [success |-> FALSE, rows_added |-> 0, last_date |-> LastDate(rows),
              message |-> "Malformed or empty response", rows |-> rows]
        ELSE [success |-> TRUE, rows_added |-> Len(new),
              last_date |-> LastDate(Merge(rows, new)),
              message |-> "", rows |-> Merge(rows, new)]

\* One ingest call on a file holding rows: the result it reports and, in the
\* field rows, the file's contents after it.
IngestOutcome(rows, through, mode) ==
    LET start == FetchStartDate(rows)
        raw   == ProviderFetch(start, through)
        new   == Validate(raw, Null)
    IN  IF start > through
        THEN [success |-> TRUE, rows_added |-> 0, last_date |-> LastDate(rows),
              message |-> "Data is already up to date", rows |-> rows]
        ELSE IF mode = "unreachable"
        THEN [success |-> FALSE, rows_added |-> 0, last_date |-> LastDate(rows),
              message |-> "Provider unreachable", rows |-> rows]
        ELSE IF mode = "malformed" \/ raw = <<>>
        THEN [success |-> FALSE, rows_added |-> 0, last_date |-> LastDate(rows),
              message |-> "Malformed or empty response", rows |-> rows]
        ELSE [success |-> TRUE, rows_added |-> Len(new),
              last_date |-> LastDate(Merge(rows, new)),
              message |-> "", rows |-> Merge(rows, new)]

NoCall == [called |-> FALSE]

\* ingest on file p up to requestedThroughDate, the provider behaving as mode.
Ingest(p, through, mode) ==
    LET out == IngestOutcome(store[p], through, mode)
    IN  /\ Len(store[p]) <= MaxDate
        /\ store' = [store EXCEPT ![p] = out.rows]
        /\ last' = [last EXCEPT ![p] =
                      [called |-> TRUE, start |-> FetchStartDate(store[p]),
                       through |-> through, success |-> out.success,
                       rows_added |-> out.rows_added, last_date |-> out.last_date,
                       message |-> out.message]]
        /\ UNCHANGED feed
        /\ UNCHANGED <<engineVars, metricsVars, uiVars>>

StoreIdle ==
    /\ store = [p \in Files |-> <<>>]
    /\ feed = <<>>
    /\ last = [p \in Files |-> NoCall]

(***************************************************************************)
(* Seasonality Calculation Engine: calculate_seasonality(file, year).      *)
(* A series is held grouped by calendar year: series[y] is the sequence of *)
(* the year's price points [doy, close] in date order, doy the day of the  *)
(* year 1..NumDays. Fractions are fixed-point, in thousandths.             *)
(***************************************************************************)
Years == 2011..(2010 + NumYears)
Days == 1..NumDays
WindowSizes == {2, 5, 6, 10}

\* The data one calendar year can hold in a series drawn for the engine.
Shapes == {"none", "rising", "late"}

\* "rising" trades every day, "late" has its first trading day on day 2.
YearRows(y, shape) ==
    IF shape = "rising"
    THEN [d \in Days |-> [doy |-> d, close |-> 100 + d * (1 + (y % 4))]]
    ELSE IF shape = "late"
    THEN [i \in 1..(NumDays - 1) |->
            [doy |-> i + 1, close |-> 200 - (i + 1) * (1 + (y % 3))]]
    ELSE <<>>

\* Every year has the base shape but one.
BuildSeries(base, y1, s1) ==
    [y \in Years |-> YearRows(y, IF y = y1 THEN s1 ELSE base)]

\* The series s with its rows of year y replaced by the rows of a shape.
ReplaceYear(s, y, shape) == [s EXCEPT ![y] = YearRows(y, shape)]

YearPoints(s, y) == s[y]

\* The years that get a curve: at least one trading day, first close not zero.
CurveYears(s) ==
    {y \in DOMAIN s : s[y] # <<>> /\ s[y][1].close # 0}

FirstTradingDay(s, y) == YearPoints(s, y)[1].doy

\* Mutant: the price ratio, without subtracting 1.
Normalize_Ratio(close, first) == (close * 1000) \div first

\* (Price_Day_N / Price_Day_1) - 1
Normalize(close, first) == (close * 1000) \div first - 1000

\* The cumulative change of year y from its first trading day, by day of year;
\* a day without trading is absent.
NormalizedYearCurve(s, y) ==
    LET pts == YearPoints(s, y)
        first == pts[1].close
    IN  [d \in Days |->
            IF \E i \in 1..Len(pts) : pts[i].doy = d
            THEN LET i == CHOOSE i \in 1..Len(pts) : pts[i].doy = d
                 IN  Num(Normalize(pts[i].close, first))
            ELSE Null]

\* Normalization: one curve per year that gets one.
NormalizedCurves(s) == [y \in CurveYears(s) |-> NormalizedYearCurve(s, y)]

\* Mutant: the historical window reaches into the target year.
HistoricalYears_UpToCutoff(curveYears, cutoff) == {y \in curveYears : y <= cutoff}

\* The historical window: all data strictly before Jan 1 of the target year.
HistoricalYears(curveYears, cutoff) == {y \in curveYears : y < cutoff}

Max(S) == CHOOSE x \in S : \A z \in S : z <= x
Min(S) == CHOOSE x \in S : \A z \in S : x <= z

RECURSIVE MostRecent(_, _)
\* The n largest years of a set, all of it when it holds fewer.
MostRecent(S, n) ==
    IF n = 0 \/ S = {} THEN {}
    ELSE {Max(S)} \cup MostRecent(S \ {Max(S)}, n - 1)

\* Mutant: a window with fewer than n years to draw on selects none.
SelectWindow_FullOnly(curveYears, cutoff, n) ==
    IF Cardinality(HistoricalYears(curveYears, cutoff)) < n THEN {}
    ELSE MostRecent(HistoricalYears(curveYears, cutoff), n)

\* Period grouping: the last n years of the historical window.
SelectWindow(curveYears, cutoff, n) == MostRecent(HistoricalYears(curveYears, cutoff), n)

RECURSIVE SumOver(_, _)
SumOver(f(_), S) ==
    IF S = {} THEN 0
    ELSE LET x == CHOOSE x \in S : TRUE IN f(x) + SumOver(f, S \ {x})

\* Mutant: an absent value counts as 0 and the sum is divided by the number of
\* selected years.
Aggregate_ZeroFill(curves, sel) ==
    [d \in Days |->
        LET val(y) == IF curves[y][d] = Null THEN 0 ELSE curves[y][d][1]
        IN  IF sel = {} THEN Null
            ELSE Num(SumOver(val, sel) \div Cardinality(sel))]

\* Averaging: the mean change per day of year over the selected years
\* present on it.
Aggregate(curves, sel) ==
    [d \in Days |->
        LET have == {y \in sel : curves[y][d] # Null}
            val(y) == curves[y][d][1]
        IN  IF have = {} THEN Null
            ELSE Num(SumOver(val, have) \div Cardinality(have))]

AllNull == [d \in Days |-> Null]

\* Mutant: a request without history before the target year is answered as a
\* failure.
CalculateSeasonality_NoDataIsError(s, year) ==
    LET curves == NormalizedCurves(s)
        cy == DOMAIN curves
    IN  IF HistoricalYears(cy, year) = {}
        THEN [success |-> FALSE, message |-> "No historical data"]
        ELSE [success |-> TRUE,
              message |-> "",
              avg_2yr |-> Aggregate(curves, SelectWindow(cy, year, 2)),
              avg_5yr |-> Aggregate(curves, SelectWindow(cy, year, 5)),
              avg_6yr |-> Aggregate(curves, SelectWindow(cy, year, 6)),
              avg_10yr |-> Aggregate(curves, SelectWindow(cy, year, 10)),
              actual |-> IF year \in cy THEN curves[year] ELSE AllNull,
              target_year |-> year]

\* calculate_seasonality on a file holding the series s, for a target year.
CalculateSeasonality(s, year) ==
    LET curves == NormalizedCurves(s)
        cy == DOMAIN curves
    IN  [success |-> TRUE,
         message |-> IF HistoricalYears(cy, year) = {} THEN "No historical data" ELSE "",
         avg_2yr |-> Aggregate(curves, SelectWindow(cy, year, 2)),
         avg_5yr |-> Aggregate(curves, SelectWindow(cy, year, 5)),
         avg_6yr |-> Aggregate(curves, SelectWindow(cy, year, 6)),
         avg_10yr |-> Aggregate(curves, SelectWindow(cy, year, 10)),
         \* Target year data: the target year's own curve, if it has one.
         actual |-> IF year \in cy THEN curves[year] ELSE AllNull,
         target_year |-> year]

\* The window average of size n in a result.
WindowAvg(r, n) ==
    CASE n = 2 -> r.avg_2yr [] n = 5 -> r.avg_5yr [] n = 6 -> r.avg_6yr
      [] n = 10 -> r.avg_10yr

ChangedSeries == ReplaceYear(series, changedYear, changedShape)

Calculate ==
    /\ engResult = Null
    /\ engResult' = CalculateSeasonality(series, cutoffYear)
    /\ UNCHANGED <<series, cutoffYear, changedYear, changedShape, engResult2>>
    /\ UNCHANGED <<storeVars, metricsVars, uiVars>>

CalculateChanged ==
    /\ engResult2 = Null
    /\ engResult2' = CalculateSeasonality(ChangedSeries, cutoffYear)
    /\ UNCHANGED <<series, cutoffYear, changedYear, changedShape, engResult>>
    /\ UNCHANGED <<storeVars, metricsVars, uiVars>>

(***************************************************************************)
(* COT Metrics Calculator: computeMetrics(cotSeries, windowYears).         *)
(* A report date is a calendar year and one of the report days within it,  *)
(* numbered so that the same day a year earlier is a fixed step back.      *)
(***************************************************************************)
CotYears == 2021..(2020 + MaxCotYears)
Halves == {0, 1}
ReportDate(y, h) == y * Cardinality(Halves) + h
CotDates == {ReportDate(y, h) : y \in CotYears, h \in Halves}

\* The same day w calendar years earlier.
YearsBefore(date, w) == date - w * Cardinality(Halves)

WindowYearsChoices == {1, 2, 3}

\* The positions a COT file can record over its dates.
CotProfiles == {"swing", "trend"}

\* "swing" has speculator nets cycling 100, 150, 120; "trend" repeats values,
\* so that some deltas are 0.
Report(date, profile) ==
    IF profile = "swing"
    THEN [date |-> date,
          open_interest |-> 1000 + 100 * (date % 4),
          noncomm_long |-> CASE date % 3 = 0 -> 100 [] date % 3 = 1 -> 150 [] OTHER -> 120,
          noncomm_short |-> 0,
          comm_long |-> 80,
          comm_short |-> 60 + 20 * (date % 2)]
    ELSE [date |-> date,
          open_interest |-> 1000 + 10 * ((date \div 2) % 3),
          noncomm_long |-> 100 + 10 * ((date \div 2) % 2),
          noncomm_short |-> 40,
          comm_long |-> 80 + (date % 3),
          comm_short |-> 60]

RECURSIVE Ascending(_)
\* The dates of a set, in date order.
Ascending(S) ==
    IF S = {} THEN <<>>
    ELSE <<Min(S)>> \o Ascending(S \ {Min(S)})

\* A stored COT series: one report per date, in date order.
CotSeriesOf(S, profile) ==
    LET dates == Ascending(S) IN [i \in 1..Len(dates) |-> Report(dates[i], profile)]

\* Mutant: the window starts the day after.
WindowStart_Exclusive(latest, w) == YearsBefore(latest, w) + 1

\* most recent report date - windowYears calendar years
WindowStart(latest, w) == YearsBefore(latest, w)

\* Restrict to the reports of the trailing window.
Window(cs, w) ==
    LET from == WindowStart(cs[Len(cs)].date, w)
        InWindow(r) == r.date >= from
    IN  SelectSeq(cs, InWindow)

\* Mutant: the report before it in the store, inside the window or not.
PriorReport_FromStore(cs, win, k) ==
    LET at == Len(cs) - Len(win) + k
    IN  IF at = 1 THEN <<>> ELSE <<cs[at - 1]>>

\* The reference of the report at position k of the window: the report before
\* it in the window, none for the first.
PriorReport(cs, win, k) == IF k = 1 THEN <<>> ELSE <<win[k - 1]>>

\* Period-over-period delta of a field at position k of the window.
Delta(F(_), cs, win, k) ==
    LET prior == PriorReport(cs, win, k)
    IN  IF prior = <<>> THEN Null ELSE Num(F(win[k]) - F(prior[1]))

NonCommNet(r) == r.noncomm_long - r.noncomm_short
CommNet(r) == r.comm_long - r.comm_short
OpenInterest(r) == r.open_interest

\* Mutant: an empty selection is not told apart.
NoReports_Never(win) == FALSE

\* The series is empty or the window selects zero reports.
NoReports(win) == win = <<>>

CalculateCOTMetrics(cs, w) ==
    LET win == IF cs = <<>> THEN <<>> ELSE Window(cs, w)
        idx == 1..Len(win)
    IN  IF NoReports(win)
        THEN [success |-> FALSE,
              message |-> IF cs = <<>> THEN "No COT data available"
                          ELSE "No COT reports in the requested window"]
        ELSE [success |-> TRUE,
              message |-> "",
              dates |-> [i \in idx |-> win[i].date],
              open_interest |-> [i \in idx |-> Num(win[i].open_interest)],
              noncomm_net |-> [i \in idx |-> Num(NonCommNet(win[i]))],
              comm_net |-> [i \in idx |-> Num(CommNet(win[i]))],
              noncomm_long |-> [i \in idx |-> Num(win[i].noncomm_long)],
              noncomm_short |-> [i \in idx |-> Num(win[i].noncomm_short)],
              comm_long |-> [i \in idx |-> Num(win[i].comm_long)],
              comm_short |-> [i \in idx |-> Num(win[i].comm_short)],
              noncomm_net_change |-> [i \in idx |-> Delta(NonCommNet, cs, win, i)],
              comm_net_change |-> [i \in idx |-> Delta(CommNet, cs, win, i)],
              oi_change |-> [i \in idx |-> Delta(OpenInterest, cs, win, i)]]

ComputeMetrics ==
    /\ cotResult = Null
    /\ cotResult' = CalculateCOTMetrics(cotSeries, windowYears)
    /\ UNCHANGED <<cotSeries, windowYears>>
    /\ UNCHANGED <<storeVars, engineVars, uiVars>>

\* The calculator at rest.
MetricsIdle ==
    /\ cotSeries = <<>>
    /\ windowYears = 1
    /\ cotResult = Null

(***************************************************************************)
(* Front end: the hooks useSeasonality and useCOT, started from the        *)
(* Sidebar and COTChart buttons. An async handler is suspended at one      *)
(* await at a time, so a handler in progress is its invocation in flight:  *)
(* an entry of pending, carrying the handler's locals.                     *)
(***************************************************************************)
Some(v) == <<v>>

ASSETS ==
    <<"gold", "silver", "platinum", "palladium", "copper", "oil", "natgas",
      "heating_oil", "gasoline", "corn", "wheat", "soybeans", "coffee", "sugar",
      "cotton", "bitcoin", "sp500", "eurusd">>

SelectableAssets == {ASSETS[i] : i \in 1..MaxAssets}
SelectableYears == {2010 + NumYears - 1, 2010 + NumYears}

\* parseInt of the year input's text: the year typed, or NaN when the input
\* has been cleared.
NaN == -1
YearInputs == SelectableYears \cup {NaN}

\* The year input's range: min="2000", max the current year.
ValidYear(y) == y # NaN /\ y >= 2000 /\ y <= 2010 + NumYears
Periods == {1, 2, 3}

DailyPath(dir, asset) == dir \o "/data/" \o asset \o "_daily.csv"

\* Mutant: the COT file is named like the price file.
CotPath_DailySuffix(dir, asset) == dir \o "/data/" \o asset \o "_daily.csv"

CotPath(dir, asset) == dir \o "/data/" \o asset \o "_cot.csv"

AutoDomain == <<"auto", "auto">>

\* The price history behind each asset's daily file while the front end runs.
AssetSeries(asset) ==
    IF asset = ASSETS[1] THEN BuildSeries("rising", 2010 + NumYears, "late")
    ELSE BuildSeries("late", 2010 + NumYears, "rising")

\* A promise returned by invoke settles one of two ways.
Resolved(r) == [thrown |-> FALSE, result |-> r]
Rejected(e) == [thrown |-> TRUE, err |-> e]

\* Mutant: the command never settles.
FetchOutcomes_NeverSettles == {}

\* What invoke("fetch_data") and invoke("fetch_cot_data") can settle to.
FetchOutcomes ==
    {Rejected("sidecar failed")}
    \cup {Resolved([success |-> FALSE, message |-> m]) : m \in {"", "No data found"}}
    \cup {Resolved([success |-> TRUE, rows_added |-> Null, last_date |-> ""]),
          Resolved([success |-> TRUE, rows_added |-> Num(5), last_date |-> "2024-01-05"])}

\* The engine's answer for each asset's file and each year.
SeasonalityOf ==
    [a \in SelectableAssets, y \in SelectableYears |->
        CalculateSeasonality(AssetSeries(a), y)]

\* What invoke("calculate_seasonality", {filePath, year}) can settle to.
CalculateOutcomes(asset, year) ==
    {Rejected("sidecar failed")}
    \cup {Resolved([success |-> FALSE, message |-> m]) : m \in {"", "File not found"}}
    \cup (IF year \in SelectableYears THEN {Resolved(SeasonalityOf[asset, year])} ELSE {})

\* The COT history behind each asset's COT file while the front end runs: the
\* first asset has reports, the others a freshly created file without rows.
AssetCotSeries(asset) ==
    IF asset = ASSETS[1] THEN CotSeriesOf(CotDates, "swing") ELSE <<>>

\* The calculator's answer for each asset's file and each window.
CotMetricsOf ==
    [a \in SelectableAssets, w \in Periods |->
        CalculateCOTMetrics(AssetCotSeries(a), w)]

\* The metrics of the trailing window of an asset's COT file.
CotMetrics(asset, years) == CotMetricsOf[asset, years]

\* What invoke("calculate_cot_metrics", {filePath, years}) can settle to.
CotCalcOutcomes(asset, years) ==
    {Rejected("sidecar failed")}
    \cup {Resolved([success |-> FALSE, message |-> m]) : m \in {"", "No COT data"}}
    \cup {Resolved(CotMetrics(asset, years))}

Remove(q, i) == SubSeq(q, 1, i - 1) \o SubSeq(q, i + 1, Len(q))

\* message || fallback
OrElse(message, fallback) == IF message = "" THEN fallback ELSE message

\* ---- App
InitializeApp ==
    /\ appDataDir = ""
    /\ appDataDir' = "/appdata"
    /\ UNCHANGED <<selectedAsset, selectedYear, loading, error, chartData, dataStatus,
                   yAxisDomain, cotData, cotLoading, cotPeriod, cotError, pending, lastCalc>>
    /\ UNCHANGED <<storeVars, engineVars, metricsVars, dragVars>>

SelectAsset(a) ==
    /\ selectedAsset' = a
    /\ UNCHANGED <<appDataDir, selectedYear, loading, error, chartData, dataStatus,
                   yAxisDomain, cotData, cotLoading, cotPeriod, cotError, pending, lastCalc>>
    /\ UNCHANGED <<storeVars, engineVars, metricsVars, dragVars>>

SelectYear(y) ==
    /\ selectedYear' = y
    /\ UNCHANGED <<appDataDir, selectedAsset, loading, error, chartData, dataStatus,
                   yAxisDomain, cotData, cotLoading, cotPeriod, cotError, pending, lastCalc>>
    /\ UNCHANGED <<storeVars, engineVars, metricsVars, dragVars>>

\* ---- Sidebar: a button takes a click unless it is disabled.
\* Mutant: the Update Data button is never disabled.
UpdateDataEnabled_Always == TRUE

UpdateDataEnabled == ~loading

\* Mutant: the Calculate button is never disabled.
CalculateEnabled_Always == TRUE

CalculateEnabled == ~loading

LoadCotEnabled == ~(cotLoading \/ appDataDir = "")

\* COTChart draws the period buttons only with data and no error, and disables
\* them while loading.
PeriodEnabled ==
    /\ cotError = Null
    /\ cotData # Null
    /\ cotData.dates # <<>>
    /\ ~cotLoading

\* ---- useSeasonality
\* handleFetchData up to its await.
ClickUpdateData ==
    /\ UpdateDataEnabled
    /\ Len(pending) < MaxPending
    /\ IF appDataDir = ""
       THEN /\ error' = Some("App not initialized")
            /\ UNCHANGED <<loading, dataStatus, pending>>
       ELSE /\ loading' = TRUE
            /\ error' = Null
            /\ dataStatus' = [kind |-> "Fetching data..."]
            /\ pending' = Append(pending,
                   [handler |-> "handleFetchData", cmd |-> "fetch_data",
                    filePath |-> DailyPath(appDataDir, selectedAsset),
                    asset |-> selectedAsset])
    /\ UNCHANGED <<appDataDir, selectedAsset, selectedYear, chartData, yAxisDomain,
                   cotData, cotLoading, cotPeriod, cotError, lastCalc>>
    /\ UNCHANGED <<storeVars, engineVars, metricsVars, dragVars>>

\* handleFetchData from the resolution of fetch_data to its end.
FetchDataSettled(i, out) ==
    /\ IF out.thrown
       THEN /\ error' = Some("Error: " \o out.err)
            /\ dataStatus' = [kind |-> "Error fetching data"]
       ELSE IF out.result.success
       THEN /\ dataStatus' = [kind |-> "Downloaded",
                              rows |-> IF out.result.rows_added \in {Null, Num(0)}
                                       THEN 0 ELSE out.result.rows_added[1],
                              last |-> OrElse(out.result.last_date, "N/A")]
            /\ UNCHANGED error
       ELSE /\ error' = Some(OrElse(out.result.message, "Failed to fetch data"))
            /\ dataStatus' = [kind |-> "Error fetching data"]
    /\ loading' = FALSE
    /\ pending' = Remove(pending, i)
    /\ UNCHANGED <<appDataDir, selectedAsset, selectedYear, chartData, yAxisDomain,
                   cotData, cotLoading, cotPeriod, cotError, lastCalc>>
    /\ UNCHANGED <<storeVars, engineVars, metricsVars, dragVars>>

\* result.avg_Nyr?.[day]: undefined when the array is missing or too short.
At(arr, day) ==
    IF arr = Null THEN Null
    ELSE IF day + 1 \in DOMAIN arr THEN arr[day + 1] ELSE Null

\* value || null: null for null and undefined, and for the number 0.
OrNull(v) == IF v = Null \/ v = Num(0) THEN Null ELSE v

\* Math.floor(day / 30.4), capped at 11 (December).
MonthIndex(day) ==
    LET m == (day * 10) \div 304 IN IF m < 11 THEN m ELSE 11

\* Mutant: a row is pushed only for a day on which some series has a value.
Transform_PresentDaysOnly(result, year) ==
    LET row(d) == [day |-> d,
                   month |-> MonthIndex(d - 1),
                   avg10 |-> OrNull(At(result.avg_10yr, d - 1)),
                   avg6 |-> OrNull(At(result.avg_6yr, d - 1)),
                   avg5 |-> OrNull(At(result.avg_5yr, d - 1)),
                   avg2 |-> OrNull(At(result.avg_2yr, d - 1)),
                   yearKey |-> year,
                   yearVal |-> OrNull(At(result.actual, d - 1))]
        HasValue(r) == \E v \in {r.avg10, r.avg6, r.avg5, r.avg2, r.yearVal} : v # Null
    IN  SelectSeq([d \in Days |-> row(d)], HasValue)

\* The transform loop of handleCalculate: one chart row per day index.
Transform(result, year) ==
    [d \in Days |->
        [day |-> d,
         month |-> MonthIndex(d - 1),
         avg10 |-> OrNull(At(result.avg_10yr, d - 1)),
         avg6 |-> OrNull(At(result.avg_6yr, d - 1)),
         avg5 |-> OrNull(At(result.avg_5yr, d - 1)),
         avg2 |-> OrNull(At(result.avg_2yr, d - 1)),
         yearKey |-> year,
         yearVal |-> OrNull(At(result.actual, d - 1))]]

\* Mutant: handleCalculate without its check of appDataDir.
ClickCalculate_NoInitCheck ==
    /\ CalculateEnabled
    /\ Len(pending) < MaxPending
    /\ loading' = TRUE
    /\ error' = Null
    /\ dataStatus' = [kind |-> "Calculating seasonality..."]
    /\ pending' = Append(pending,
           [handler |-> "handleCalculate", cmd |-> "calculate_seasonality",
            filePath |-> DailyPath(appDataDir, selectedAsset),
            asset |-> selectedAsset, year |-> selectedYear])
    /\ UNCHANGED <<appDataDir, selectedAsset, selectedYear, chartData, yAxisDomain,
                   cotData, cotLoading, cotPeriod, cotError, lastCalc>>
    /\ UNCHANGED <<storeVars, engineVars, metricsVars, dragVars>>

\* handleCalculate up to its await.
ClickCalculate ==
    /\ CalculateEnabled
    /\ Len(pending) < MaxPending
    /\ IF appDataDir = ""
       THEN /\ error' = Some("App not initialized")
            /\ UNCHANGED <<loading, dataStatus, pending>>
       ELSE /\ loading' = TRUE
            /\ error' = Null
            /\ dataStatus' = [kind |-> "Calculating seasonality..."]
            /\ pending' = Append(pending,
                   [handler |-> "handleCalculate", cmd |-> "calculate_seasonality",
                    filePath |-> DailyPath(appDataDir, selectedAsset),
                    asset |-> selectedAsset, year |-> selectedYear])
    /\ UNCHANGED <<appDataDir, selectedAsset, selectedYear, chartData, yAxisDomain,
                   cotData, cotLoading, cotPeriod, cotError, lastCalc>>
    /\ UNCHANGED <<storeVars, engineVars, metricsVars, dragVars>>

\* Mutant: a failed calculation clears the chart and resets the y-axis.
CalculateSettled_ClearsOnFailure(i, out) ==
    /\ IF ~out.thrown /\ out.result.success
       THEN /\ chartData' = Transform(out.result, pending[i].year)
            /\ lastCalc' = out.result
            /\ dataStatus' = [kind |-> "Data calculated", year |-> pending[i].year]
            /\ UNCHANGED error
       ELSE /\ chartData' = <<>>
            /\ lastCalc' = Null
            /\ dataStatus' = [kind |-> "Error calculating"]
            /\ error' = Some("Failed to calculate seasonality")
    /\ yAxisDomain' = AutoDomain
    /\ loading' = FALSE
    /\ pending' = Remove(pending, i)
    /\ UNCHANGED <<appDataDir, selectedAsset, selectedYear,
                   cotData, cotLoading, cotPeriod, cotError>>
    /\ UNCHANGED <<storeVars, engineVars, metricsVars, dragVars>>

\* handleCalculate from the resolution of calculate_seasonality to its end.
CalculateSettled(i, out) ==
    /\ IF out.thrown
       THEN /\ error' = Some("Error: " \o out.err)
            /\ dataStatus' = [kind |-> "Error calculating"]
            /\ UNCHANGED <<chartData, yAxisDomain, lastCalc>>
       ELSE IF out.result.success
       THEN /\ chartData' = Transform(out.result, pending[i].year)
            /\ yAxisDomain' = AutoDomain
            /\ dataStatus' = [kind |-> "Data calculated", year |-> pending[i].year]
            /\ lastCalc' = out.result
            /\ UNCHANGED error
       ELSE /\ error' = Some(OrElse(out.result.message, "Failed to calculate seasonality"))
            /\ dataStatus' = [kind |-> "Error calculating"]
            /\ UNCHANGED <<chartData, yAxisDomain, lastCalc>>
    /\ loading' = FALSE
    /\ pending' = Remove(pending, i)
    /\ UNCHANGED <<appDataDir, selectedAsset, selectedYear,
                   cotData, cotLoading, cotPeriod, cotError>>
    /\ UNCHANGED <<storeVars, engineVars, metricsVars, dragVars>>

\* ---- useCOT
\* Mutant: the failed fetch is not returned from.
FetchCotFailed_Never(fetchResult) == FALSE

\* if (!fetchResult.success)
FetchCotFailed(fetchResult) == ~fetchResult.success

\* Mutant: handleFetchCOT without setCotError(null).
ClickLoadCot_KeepsError ==
    /\ LoadCotEnabled
    /\ Len(pending) < MaxPending
    /\ cotLoading' = TRUE
    /\ pending' = Append(pending,
           [handler |-> "handleFetchCOT", cmd |-> "fetch_cot_data",
            filePath |-> CotPath(appDataDir, selectedAsset),
            asset |-> selectedAsset, years |-> cotPeriod])
    /\ UNCHANGED <<appDataDir, selectedAsset, selectedYear, loading, error, chartData,
                   dataStatus, yAxisDomain, cotData, cotPeriod, cotError, lastCalc>>
    /\ UNCHANGED <<storeVars, engineVars, metricsVars, dragVars>>

\* handleFetchCOT up to its first await.
ClickLoadCot ==
    /\ LoadCotEnabled
    /\ Len(pending) < MaxPending
    /\ cotLoading' = TRUE
    /\ cotError' = Null
    /\ pending' = Append(pending,
           [handler |-> "handleFetchCOT", cmd |-> "fetch_cot_data",
            filePath |-> CotPath(appDataDir, selectedAsset),
            asset |-> selectedAsset, years |-> cotPeriod])
    /\ UNCHANGED <<appDataDir, selectedAsset, selectedYear, loading, error, chartData,
                   dataStatus, yAxisDomain, cotData, cotPeriod, lastCalc>>
    /\ UNCHANGED <<storeVars, engineVars, metricsVars, dragVars>>

\* handleFetchCOT from the settling of fetch_cot_data to its second await, or
\* to its end when the fetch failed or threw.
FetchCotSettled(i, out) ==
    /\ IF out.thrown
       THEN /\ cotError' = Some("Error: " \o out.err)
            /\ cotData' = Null
            /\ cotLoading' = FALSE
            /\ pending' = Remove(pending, i)
       ELSE IF FetchCotFailed(out.result)
       THEN /\ cotError' = Some(OrElse(out.result.message, "Failed to fetch COT data"))
            /\ cotData' = Null
            /\ cotLoading' = FALSE
            /\ pending' = Remove(pending, i)
       ELSE /\ pending' = [pending EXCEPT ![i] =
                   [handler |-> "handleFetchCOT", cmd |-> "calculate_cot_metrics",
                    filePath |-> pending[i].filePath, asset |-> pending[i].asset,
                    years |-> pending[i].years, fetchResult |-> out.result]]
            /\ UNCHANGED <<cotError, cotData, cotLoading>>
    /\ UNCHANGED <<appDataDir, selectedAsset, selectedYear, loading, error, chartData,
                   dataStatus, yAxisDomain, cotPeriod, lastCalc>>
    /\ UNCHANGED <<storeVars, engineVars, metricsVars, dragVars>>

\* handleFetchCOT from the settling of calculate_cot_metrics to its end.
FetchCotCalcSettled(i, out) ==
    /\ IF out.thrown
       THEN /\ cotError' = Some("Error: " \o out.err)
            /\ cotData' = Null
       ELSE IF out.result.success
       THEN /\ cotData' = out.result
            /\ UNCHANGED cotError
       ELSE /\ cotError' = Some(OrElse(out.result.message, "Failed to calculate COT metrics"))
            /\ cotData' = Null
    /\ cotLoading' = FALSE
    /\ pending' = Remove(pending, i)
    /\ UNCHANGED <<appDataDir, selectedAsset, selectedYear, loading, error, chartData,
                   dataStatus, yAxisDomain, cotPeriod, lastCalc>>
    /\ UNCHANGED <<storeVars, engineVars, metricsVars, dragVars>>

\* Mutant: handleCOTPeriodChange without setCotPeriod(period).
ClickPeriod_KeepsPeriod(period) ==
    /\ PeriodEnabled
    /\ Len(pending) < MaxPending
    /\ IF cotData = Null
       THEN UNCHANGED <<cotLoading, pending>>
       ELSE /\ cotLoading' = TRUE
            /\ pending' = Append(pending,
                   [handler |-> "handleCOTPeriodChange", cmd |-> "calculate_cot_metrics",
                    filePath |-> CotPath(appDataDir, selectedAsset),
                    asset |-> selectedAsset, years |-> period])
    /\ UNCHANGED <<appDataDir, selectedAsset, selectedYear, loading, error, chartData,
                   dataStatus, yAxisDomain, cotData, cotPeriod, cotError, lastCalc>>
    /\ UNCHANGED <<storeVars, engineVars, metricsVars, dragVars>>

\* handleCOTPeriodChange up to its await.
ClickPeriod(period) ==
    /\ PeriodEnabled
    /\ Len(pending) < MaxPending
    /\ cotPeriod' = period
    /\ IF cotData = Null
       THEN UNCHANGED <<cotLoading, pending>>
       ELSE /\ cotLoading' = TRUE
            /\ pending' = Append(pending,
                   [handler |-> "handleCOTPeriodChange", cmd |-> "calculate_cot_metrics",
                    filePath |-> CotPath(appDataDir, selectedAsset),
                    asset |-> selectedAsset, years |-> period])
    /\ UNCHANGED <<appDataDir, selectedAsset, selectedYear, loading, error, chartData,
                   dataStatus, yAxisDomain, cotData, cotError, lastCalc>>
    /\ UNCHANGED <<storeVars, engineVars, metricsVars, dragVars>>

\* handleCOTPeriodChange from the settling of calculate_cot_metrics to its end.
PeriodCalcSettled(i, out) ==
    /\ IF out.thrown
       THEN /\ cotError' = Some("Error: " \o out.err)
            /\ UNCHANGED cotData
       ELSE IF out.result.success
       THEN /\ cotData' = out.result
            /\ UNCHANGED cotError
       ELSE /\ cotError' = Some(OrElse(out.result.message, "Failed to calculate COT metrics"))
            /\ UNCHANGED cotData
    /\ cotLoading' = FALSE
    /\ pending' = Remove(pending, i)
    /\ UNCHANGED <<appDataDir, selectedAsset, selectedYear, loading, error, chartData,
                   dataStatus, yAxisDomain, cotPeriod, lastCalc>>
    /\ UNCHANGED <<storeVars, engineVars, metricsVars, dragVars>>

\* ---- useSeasonality: vertical drag on the seasonality chart
\* SeasonalityChart attaches the mouse handlers to the chart's div, which it
\* renders only when chartData is not empty.
ChartShown == chartData # <<>>

\* e.clientY: the pointer's viewport coordinate, in steps of the chart's height
\* of 400 pixels (the chart can scroll under a held pointer).
ClientYs == {400 * k : k \in 0..MaxDragSteps}

\* A y-axis bound is a JavaScript number. It is held as a count of halves of
\* the chart's value unit, which makes the factor 0.5 of handleChartMouseMove
\* exact at the pointer positions of ClientYs.
InHalves(v) == 2 * v

\* The state [min, max] of yAxisDomain, told apart from ['auto', 'auto'].
NumericDomain(min, max) == <<"numeric", min, max>>

\* yAxisDomain[0] === 'auto', and likewise yAxisDomain[1]: every setYAxisDomain
\* sets both bounds to 'auto' or both to numbers.
IsAuto(domain) == domain[1] = "auto"

\* chartData.map(d => d[`${selectedYear}`]).filter(v => v !== null && v !== undefined)
ActualData(rows, year) ==
    {rows[d].yearVal[1] :
        d \in {e \in DOMAIN rows : rows[e].yearKey = year /\ rows[e].yearVal # Null}}

\* handleChartMouseDown(e, selectedYear)
ChartMouseDown(clientY) ==
    /\ ChartShown
    /\ LET actualData == ActualData(chartData, selectedYear)
       IN  /\ actualData # {}
           /\ LET currentMin == IF IsAuto(yAxisDomain)
                                THEN InHalves(Min(actualData)) ELSE yAxisDomain[2]
                  currentMax == IF IsAuto(yAxisDomain)
                                THEN InHalves(Max(actualData)) ELSE yAxisDomain[3]
              IN  /\ isDragging' = TRUE
                  /\ dragStart' = [y |-> clientY, domain |-> <<currentMin, currentMax>>]
    /\ UNCHANGED <<appDataDir, selectedAsset, selectedYear, loading, error, chartData,
                   dataStatus, yAxisDomain, cotData, cotLoading, cotPeriod, cotError,
                   pending, lastCalc>>
    /\ UNCHANGED <<storeVars, engineVars, metricsVars>>

\* The bounds handleChartMouseMove computes from the drag's start and the
\* pointer's position: adjustment = deltaY * (range / 400) * 0.5.
DraggedDomain(start, clientY) ==
    LET deltaY == clientY - start.y
        range == start.domain[2] - start.domain[1]
        adjustment == (deltaY * range) \div 800
        newMin == start.domain[1] - adjustment
        newMax == start.domain[2] + adjustment
    IN  <<newMin, newMax>>

WithinMaxDomain(d) ==
    \A i \in 1..2 : d[i] <= MaxDomain /\ d[i] >= 0 - MaxDomain

\* handleChartMouseMove(e)
ChartMouseMove(clientY) ==
    /\ ChartShown
    /\ isDragging
    /\ dragStart # Null
    /\ LET d == DraggedDomain(dragStart, clientY)
       IN  /\ WithinMaxDomain(d)
           /\ yAxisDomain' = NumericDomain(d[1], d[2])
    /\ UNCHANGED <<appDataDir, selectedAsset, selectedYear, loading, error, chartData,
                   dataStatus, cotData, cotLoading, cotPeriod, cotError, pending, lastCalc>>
    /\ UNCHANGED <<storeVars, engineVars, metricsVars, dragVars>>

\* Mutant: the drag is ended without clearing dragStart.
ChartMouseUp_KeepsDragStart ==
    /\ ChartShown
    /\ isDragging' = FALSE
    /\ UNCHANGED <<appDataDir, selectedAsset, selectedYear, loading, error, chartData,
                   dataStatus, yAxisDomain, cotData, cotLoading, cotPeriod, cotError,
                   pending, lastCalc, dragStart>>
    /\ UNCHANGED <<storeVars, engineVars, metricsVars>>

\* handleChartMouseUp, on mouse up and on mouse leave
ChartMouseUp ==
    /\ ChartShown
    /\ isDragging' = FALSE
    /\ dragStart' = Null
    /\ UNCHANGED <<appDataDir, selectedAsset, selectedYear, loading, error, chartData,
                   dataStatus, yAxisDomain, cotData, cotLoading, cotPeriod, cotError,
                   pending, lastCalc>>
    /\ UNCHANGED <<storeVars, engineVars, metricsVars>>

\* handleChartDoubleClick
ChartDoubleClick ==
    /\ ChartShown
    /\ yAxisDomain' = AutoDomain
    /\ UNCHANGED <<appDataDir, selectedAsset, selectedYear, loading, error, chartData,
                   dataStatus, cotData, cotLoading, cotPeriod, cotError, pending, lastCalc>>
    /\ UNCHANGED <<storeVars, engineVars, metricsVars, dragVars>>

\* ---- the Tauri commands in flight settle, in any order.
ResolveFetchData ==
    \E i \in 1..Len(pending) :
        /\ pending[i].handler = "handleFetchData"
        /\ \E out \in FetchOutcomes : FetchDataSettled(i, out)

ResolveCalculate ==
    \E i \in 1..Len(pending) :
        /\ pending[i].handler = "handleCalculate"
        /\ \E out \in CalculateOutcomes(pending[i].asset, pending[i].year) :
              CalculateSettled(i, out)

ResolveFetchCot ==
    \E i \in 1..Len(pending) :
        /\ pending[i].handler = "handleFetchCOT"
        /\ pending[i].cmd = "fetch_cot_data"
        /\ \E out \in FetchOutcomes : FetchCotSettled(i, out)

ResolveFetchCotCalc ==
    \E i \in 1..Len(pending) :
        /\ pending[i].handler = "handleFetchCOT"
        /\ pending[i].cmd = "calculate_cot_metrics"
        /\ \E out \in CotCalcOutcomes(pending[i].asset, pending[i].years) :
              FetchCotCalcSettled(i, out)

ResolvePeriodCalc ==
    \E i \in 1..Len(pending) :
        /\ pending[i].handler = "handleCOTPeriodChange"
        /\ \E out \in CotCalcOutcomes(pending[i].asset, pending[i].years) :
              PeriodCalcSettled(i, out)

\* The other two machines at rest.
EngineIdle ==
    /\ series = [y \in Years |-> <<>>]
    /\ cutoffYear = 0
    /\ changedYear = 0
    /\ changedShape = "none"
    /\ engResult = Null
    /\ engResult2 = Null

UiIdle ==
    /\ appDataDir = ""
    /\ selectedAsset = ASSETS[1]
    /\ selectedYear = 2010 + NumYears
    /\ loading = FALSE
    /\ error = Null
    /\ chartData = <<>>
    /\ dataStatus = [kind |-> "Not loaded"]
    /\ yAxisDomain = AutoDomain
    /\ cotData = Null
    /\ cotLoading = FALSE
    /\ cotPeriod = 1
    /\ cotError = Null
    /\ pending = <<>>
    /\ lastCalc = Null
    /\ isDragging = FALSE
    /\ dragStart = Null

InitStore ==
    /\ store = [p \in Files |-> <<>>]
    /\ feed \in Feeds
    /\ last = [p \in Files |-> NoCall]
    /\ EngineIdle
    /\ MetricsIdle
    /\ UiIdle

NextStore ==
    \E p \in Files, through \in Dates, mode \in ProviderModes : Ingest(p, through, mode)

SpecStore == InitStore /\ [][NextStore]_vars

\* A step of SpecStore that is an ingest call on file p (a call that changes
\* neither the file nor the reported outcome is a stuttering step).
IngestCalled(p) == last'[p] # last[p] \/ store'[p] # store[p]

IsPrefix(a, b) == Len(a) <= Len(b) /\ SubSeq(b, 1, Len(a)) = a

(***************************************************************************)
(* C1. Ingest is idempotent: once an ingest of a file up to date D has     *)
(* succeeded, the next ingest of that file up to any D' <= D adds zero     *)
(* rows and leaves the stored series as it was.                            *)
(***************************************************************************)
C1_IngestIdempotent ==
    [][\A p \in Files :
          (/\ last[p].called
           /\ last[p].success
           /\ IngestCalled(p)
           /\ last'[p].through <= last[p].through)
          => (/\ store'[p] = store[p]
              /\ last'[p].rows_added = 0)]_vars

\* A second call after a first that added rows.
C1_Witness ==
    \E p \in Files :
        /\ last[p].called
        /\ last[p].success
        /\ last[p].rows_added = 0
        /\ Len(store[p]) >= 2

(***************************************************************************)
(* C2. In every reachable state each stored series has strictly increasing *)
(* dates: date[i] < date[i+1] for all adjacent stored points.              *)
(***************************************************************************)
C2_DatesStrictlyIncreasing ==
    \A p \in Files : \A i \in 1..(Len(store[p]) - 1) :
        store[p][i].date < store[p][i + 1].date

\* A series grown by two successful calls, after a failed one in between.
C2_Witness ==
    \E p \in Files :
        /\ Len(store[p]) >= 2
        /\ last[p].called
        /\ last[p].success
        /\ last[p].rows_added = 1

(***************************************************************************)
(* C3. Ingest is append-only: the series stored before a call is a prefix  *)
(* of the series stored after it.                                          *)
(***************************************************************************)
C3_AppendOnly ==
    [][\A p \in Files : IsPrefix(store[p], store'[p])]_vars

\* A call has appended to a file that already held rows.
C3_Witness ==
    \E p \in Files :
        /\ last[p].called
        /\ last[p].success
        /\ last[p].rows_added >= 1
        /\ Len(store[p]) > last[p].rows_added

(***************************************************************************)
(* C4. A failing ingest call (provider unreachable, malformed payload)     *)
(* reports failure with a message and leaves the stored series as it was:  *)
(* no subset of the fetched rows is appended.                              *)
(***************************************************************************)
C4_FailureLeavesStore ==
    [][\A p \in Files :
          (IngestCalled(p) /\ ~last'[p].success)
          => (store'[p] = store[p] /\ last'[p].message # "")]_vars

\* A failed call on a file for which the provider had valid rows to give.
C4_Witness ==
    \E p \in Files :
        /\ last[p].called
        /\ ~last[p].success
        /\ store[p] # <<>>
        /\ \E i \in 1..Len(feed) : feed[i].ok /\ feed[i].date > store[p][Len(store[p])].date

InitEngine ==
    /\ \E base \in Shapes, y1 \in Years, s1 \in Shapes : series = BuildSeries(base, y1, s1)
    /\ cutoffYear \in Years
    /\ changedYear \in Years
    /\ changedShape \in Shapes
    /\ engResult = Null
    /\ engResult2 = Null
    /\ StoreIdle
    /\ MetricsIdle
    /\ UiIdle

NextEngine ==
    \/ Calculate
    \/ CalculateChanged

SpecEngine == InitEngine /\ [][NextEngine]_vars

InitCot ==
    /\ \E S \in SUBSET CotDates, p \in CotProfiles : cotSeries = CotSeriesOf(S, p)
    /\ windowYears \in WindowYearsChoices
    /\ cotResult = Null
    /\ StoreIdle
    /\ EngineIdle
    /\ UiIdle

NextCot == ComputeMetrics

SpecCot == InitCot /\ [][NextCot]_vars

(***************************************************************************)
(* C8. Each window average of size N is computed over exactly the N most   *)
(* recent years before the target year that have data: the selected years  *)
(* are those with fewer than N years of data between them and the target   *)
(* year, and when N such years exist, changing the data of an older year   *)
(* or of the target year itself leaves the window's average unchanged.     *)
(***************************************************************************)
C8_WindowUsesMostRecentYears ==
    (engResult # Null /\ engResult2 # Null) =>
        \A n \in WindowSizes :
            LET hist == {y \in CurveYears(series) : y < cutoffYear}
                sel == SelectWindow(CurveYears(series), cutoffYear, n)
            IN  /\ sel = {y \in hist : Cardinality({z \in hist : z > y}) < n}
                /\ (/\ Cardinality(sel) = n
                    /\ changedYear < Min(sel) \/ changedYear = cutoffYear)
                   => WindowAvg(engResult2, n) = WindowAvg(engResult, n)

\* The 10-year window is full, the data of a year older than it was changed,
\* and the 2-year and the 10-year averages differ.
C8_Witness ==
    /\ engResult # Null
    /\ engResult2 # Null
    /\ Cardinality(SelectWindow(CurveYears(series), cutoffYear, 10)) = 10
    /\ changedYear < Min(SelectWindow(CurveYears(series), cutoffYear, 10))
    /\ ChangedSeries # series
    /\ engResult.avg_10yr # AllNull
    /\ engResult.avg_10yr # engResult.avg_2yr

Init ==
    /\ UiIdle
    /\ StoreIdle
    /\ EngineIdle
    /\ MetricsIdle

Next ==
    \/ InitializeApp
    \/ \E a \in SelectableAssets : SelectAsset(a)
    \/ \E y \in YearInputs : SelectYear(y)
    \/ ClickUpdateData
    \/ ClickCalculate
    \/ ClickLoadCot
    \/ \E period \in Periods : ClickPeriod(period)
    \/ ResolveFetchData
    \/ ResolveCalculate
    \/ ResolveFetchCot
    \/ ResolveFetchCotCalc
    \/ ResolvePeriodCalc

Spec == Init /\ [][Next]_vars

(***************************************************************************)
(* Claims about the front end.                                             *)
(***************************************************************************)
FetchCmds == {"fetch_data", "fetch_cot_data"}
CalcCmds == {"calculate_seasonality", "calculate_cot_metrics"}

InFlight(i, cmds) == i \in 1..Len(pending) /\ pending[i].cmd \in cmds

\* C5: in handleFetchCOT, calculate_cot_metrics is in flight only when the
\* fetch_cot_data before it resolved, without throwing, to a result with
\* success = true; a failed or thrown fetch never leads to the calculation.
C5_CalcOnlyAfterFetchSuccess ==
    \A i \in 1..Len(pending) :
        (pending[i].handler = "handleFetchCOT" /\ pending[i].cmd = "calculate_cot_metrics")
            => /\ Resolved(pending[i].fetchResult) \in FetchOutcomes
               /\ pending[i].fetchResult.success

\* handleFetchCOT is at its second await, the fetch having succeeded.
C5_Witness ==
    \E i \in 1..Len(pending) :
        /\ pending[i].handler = "handleFetchCOT"
        /\ pending[i].cmd = "calculate_cot_metrics"
        /\ pending[i].fetchResult.success
        /\ cotLoading

\* C6: no two ingest commands (fetch_data, fetch_cot_data) are in flight for
\* the same store path at once, whatever the order of clicks and completions.
C6_OneIngestPerPath ==
    \A i, j \in 1..Len(pending) :
        (i # j /\ InFlight(i, FetchCmds) /\ InFlight(j, FetchCmds))
            => pending[i].filePath # pending[j].filePath

\* Both ingests of the selected asset are in flight, each on its own file,
\* and the user still has the asset selected.
C6_Witness ==
    \E i, j \in 1..Len(pending) :
        /\ pending[i].cmd = "fetch_data"
        /\ pending[j].cmd = "fetch_cot_data"
        /\ pending[i].asset = pending[j].asset
        /\ selectedAsset = pending[i].asset

\* C7: a calculation (calculate_seasonality, calculate_cot_metrics) is never
\* in flight together with an ingest of the file it reads.
C7_ComputeNeverOverlapsWrite ==
    \A i, j \in 1..Len(pending) :
        (InFlight(i, CalcCmds) /\ InFlight(j, FetchCmds))
            => pending[i].filePath # pending[j].filePath

\* A calculation of an asset's price file is in flight while the same asset's
\* COT file is being ingested, and the asset is still selected.
C7_Witness ==
    \E i, j \in 1..Len(pending) :
        /\ pending[i].cmd = "calculate_seasonality"
        /\ pending[j].cmd = "fetch_cot_data"
        /\ pending[i].asset = pending[j].asset
        /\ selectedAsset = pending[i].asset

\* C10: in the chart data built by handleCalculate, each series entry at day d
\* is null exactly when the result array is missing or null at index d - 1,
\* and every number of the result, 0 included, is carried through unchanged.
C10_NullOnlyWhereNoValue ==
    lastCalc # Null =>
        \A d \in Days :
            /\ chartData[d].avg10 = At(lastCalc.avg_10yr, d - 1)
            /\ chartData[d].avg6 = At(lastCalc.avg_6yr, d - 1)
            /\ chartData[d].avg5 = At(lastCalc.avg_5yr, d - 1)
            /\ chartData[d].avg2 = At(lastCalc.avg_2yr, d - 1)
            /\ chartData[d].yearVal = At(lastCalc.actual, d - 1)

(***************************************************************************)
(* C11. Window aggregation is per index over present values only: for      *)
(* every window and every day-of-year index d, the aggregate at d is the   *)
(* arithmetic mean (in whole thousandths) of the selected years' values    *)
(* present at d, and is null exactly when no selected year has a value at  *)
(* d; when a change to the series leaves the selection and the presence of *)
(* every selected year at d as they were, nullness at d stays as it was,   *)
(* whatever changed at the other indices.                                  *)
(***************************************************************************)
C11_AggregateOverPresentValues ==
    (engResult # Null /\ engResult2 # Null) =>
        \A n \in WindowSizes :
            LET sel == SelectWindow(CurveYears(series), cutoffYear, n)
                sel2 == SelectWindow(CurveYears(ChangedSeries), cutoffYear, n)
                avg == WindowAvg(engResult, n)
                avg2 == WindowAvg(engResult2, n)
                Present(s, y, d) == \E i \in 1..Len(s[y]) : s[y][i].doy = d
            IN  \A d \in Days :
                    LET have == {y \in sel : Present(series, y, d)}
                        val(y) == NormalizedYearCurve(series, y)[d][1]
                        sum == SumOver(val, have)
                        k == Cardinality(have)
                    IN  /\ (avg[d] = Null) <=> (have = {})
                        /\ have # {} =>
                              /\ k * avg[d][1] <= sum
                              /\ sum < k * (avg[d][1] + 1)
                        /\ (/\ sel2 = sel
                            /\ \A y \in sel :
                                  Present(ChangedSeries, y, d) <=> Present(series, y, d))
                           => ((avg2[d] = Null) <=> (avg[d] = Null))

\* A window whose average is null at day 1 and present at day 2, over two
\* years; changing one of its years made day 1 present and left day 2 so.
C11_Witness ==
    /\ engResult # Null
    /\ engResult2 # Null
    /\ Cardinality(SelectWindow(CurveYears(series), cutoffYear, 2)) = 2
    /\ SelectWindow(CurveYears(ChangedSeries), cutoffYear, 2)
          = SelectWindow(CurveYears(series), cutoffYear, 2)
    /\ engResult.avg_2yr[1] = Null
    /\ engResult.avg_2yr[2] # Null
    /\ engResult2.avg_2yr[1] # Null
    /\ engResult2.avg_2yr[2] # Null
    /\ \E y \in SelectWindow(CurveYears(series), cutoffYear, 5) :
          NormalizedYearCurve(series, y)[1] = Null
    /\ engResult.avg_5yr[1] # Null

(***************************************************************************)
(* C12. Window size degradation: when at least one but fewer than N years  *)
(* with data lie before the target year, the N-year average is the average *)
(* over all of them; the call succeeds and the array is not all null.      *)
(***************************************************************************)
C12_WindowDegradesToAvailableYears ==
    engResult # Null =>
        \A n \in WindowSizes :
            LET hist == {y \in CurveYears(series) : y < cutoffYear}
            IN  (hist # {} /\ Cardinality(hist) < n) =>
                    /\ engResult.success
                    /\ WindowAvg(engResult, n) = Aggregate(NormalizedCurves(series), hist)
                    /\ WindowAvg(engResult, n) # AllNull

\* Three years of history: the 10-year and 5-year averages are the 3-year
\* average, which differs from the 2-year average.
C12_Witness ==
    /\ engResult # Null
    /\ Cardinality({y \in CurveYears(series) : y < cutoffYear}) = 3
    /\ engResult.success
    /\ engResult.avg_10yr # AllNull
    /\ engResult.avg_10yr = engResult.avg_5yr
    /\ engResult.avg_10yr # engResult.avg_2yr

(***************************************************************************)
(* C13. Every array of a SeasonalityResult (each window average and        *)
(* actual) has one slot per day of the year, NumDays of them (365 in the   *)
(* program), for every file and year; and the chart data built from a      *)
(* successful result has exactly NumDays rows, day = 1..NumDays in order,  *)
(* one row per array index.                                                *)
(***************************************************************************)
ResultArrays(r) == {r.avg_2yr, r.avg_5yr, r.avg_6yr, r.avg_10yr, r.actual}

C13_FixedLengthArraysAndRows ==
    /\ \A a \in SelectableAssets, y \in SelectableYears :
          \A arr \in ResultArrays(SeasonalityOf[a, y]) : Len(arr) = NumDays
    /\ chartData # <<>> =>
          /\ lastCalc # Null
          /\ \A arr \in ResultArrays(lastCalc) : Len(arr) = NumDays
          /\ Len(chartData) = NumDays
          /\ \A d \in 1..Len(chartData) : chartData[d].day = d

\* handleCalculate has built the chart from a successful result that has a
\* day without any value.
C13_Witness ==
    /\ dataStatus.kind = "Data calculated"
    /\ lastCalc # Null
    /\ lastCalc.success
    /\ Len(chartData) = NumDays
    /\ chartData[NumDays].day = NumDays
    /\ \E d \in Days : lastCalc.actual[d] = Null

(***************************************************************************)
(* Claims about the COT Metrics Calculator.                                *)
(***************************************************************************)
\* The stored reports the request's window covers, read off the store.
ReportsInWindow ==
    LET latest == cotSeries[Len(cotSeries)].date
        Recent(r) == r.date + windowYears * Cardinality(Halves) >= latest
    IN  SelectSeq(cotSeries, Recent)

\* C14: at every position k >= 2 of the window each change field is the
\* difference of its value at k and at k - 1 (noncomm_net_change from
\* noncomm_net, comm_net_change from comm_net, oi_change from open_interest),
\* and at the first position of the window all three change fields are null,
\* also when the store holds an earlier report outside the window.
C14_DeltasWithinWindow ==
    (cotResult # Null /\ cotResult.success) =>
        LET r == cotResult
            Diff(arr, k) == Num(arr[k][1] - arr[k - 1][1])
        IN  /\ \A k \in 2..Len(r.dates) :
                  /\ r.noncomm_net_change[k] = Diff(r.noncomm_net, k)
                  /\ r.comm_net_change[k] = Diff(r.comm_net, k)
                  /\ r.oi_change[k] = Diff(r.open_interest, k)
            /\ r.noncomm_net_change[1] = Null
            /\ r.comm_net_change[1] = Null
            /\ r.oi_change[1] = Null

\* Nets 100, 150, 120 give changes null, 50, -30, with an earlier report in
\* the store outside the window.
C14_Witness ==
    /\ cotResult # Null
    /\ cotResult.success
    /\ Len(cotSeries) > Len(cotResult.dates)
    /\ cotResult.noncomm_net = <<Num(100), Num(150), Num(120)>>
    /\ cotResult.noncomm_net_change = <<Null, Num(50), Num(-30)>>

\* C15: the result holds exactly the stored reports dated on or after the
\* most recent report date minus windowYears calendar years, in date order,
\* and every array has the length of dates, index i of each array coming
\* from the report dated dates[i].
C15_TrailingWindowAligned ==
    (cotResult # Null /\ cotResult.success) =>
        LET r == cotResult
            want == ReportsInWindow
        IN  /\ Len(r.dates) = Len(want)
            /\ \A arr \in {r.open_interest, r.noncomm_net, r.comm_net, r.noncomm_long,
                            r.noncomm_short, r.comm_long, r.comm_short,
                            r.noncomm_net_change, r.comm_net_change, r.oi_change} :
                  Len(arr) = Len(r.dates)
            /\ \A i \in 1..Len(want) :
                  /\ r.dates[i] = want[i].date
                  /\ r.open_interest[i] = Num(want[i].open_interest)
                  /\ r.noncomm_long[i] = Num(want[i].noncomm_long)
                  /\ r.noncomm_short[i] = Num(want[i].noncomm_short)
                  /\ r.comm_long[i] = Num(want[i].comm_long)
                  /\ r.comm_short[i] = Num(want[i].comm_short)
                  /\ r.noncomm_net[i] = Num(want[i].noncomm_long - want[i].noncomm_short)
                  /\ r.comm_net[i] = Num(want[i].comm_long - want[i].comm_short)
            /\ \A i \in 2..Len(r.dates) : r.dates[i - 1] < r.dates[i]

\* A two-year window whose first report is dated exactly two years before the
\* most recent one, with older reports left out.
C15_Witness ==
    /\ cotResult # Null
    /\ cotResult.success
    /\ windowYears = 2
    /\ Len(cotSeries) > Len(cotResult.dates)
    /\ Len(cotResult.dates) >= 3
    /\ cotResult.dates[1] = YearsBefore(cotSeries[Len(cotSeries)].date, 2)

(***************************************************************************)
(* C16. calculateCOTMetrics on a series without rows answers success =     *)
(* false with a message, and the useCOT handler that asked ends with       *)
(* cotLoading = false and cotError a non-empty message, however the        *)
(* command settles.                                                        *)
(***************************************************************************)
C16_EmptySeriesIsReportedNotThrown ==
    [][\A i \in 1..Len(pending) :
          (/\ pending[i].cmd = "calculate_cot_metrics"
           /\ AssetCotSeries(pending[i].asset) = <<>>
           /\ pending' = Remove(pending, i))
          => /\ ~CotMetrics(pending[i].asset, pending[i].years).success
             /\ CotMetrics(pending[i].asset, pending[i].years).message # ""
             /\ cotLoading' = FALSE
             /\ cotError' # Null
             /\ cotError'[1] # ""]_vars

\* useCOT at rest showing the calculator's message for an empty series.
C16_Witness ==
    /\ cotError = Some(CalculateCOTMetrics(<<>>, cotPeriod).message)
    /\ ~CalculateCOTMetrics(<<>>, cotPeriod).success
    /\ ~cotLoading
    /\ \A i \in 1..Len(pending) : pending[i].cmd \notin {"fetch_cot_data", "calculate_cot_metrics"}

(***************************************************************************)
(* The front end with every command in flight settling eventually: the     *)
(* engine answers each call, with success, with success = false or with an *)
(* error. Nothing is assumed of the user's clicks.                         *)
(***************************************************************************)
FairSpec ==
    /\ Spec
    /\ WF_vars(ResolveFetchData)
    /\ WF_vars(ResolveCalculate)
    /\ WF_vars(ResolveFetchCot)
    /\ WF_vars(ResolveFetchCotCalc)
    /\ WF_vars(ResolvePeriodCalc)

\* C17: whenever loading (resp. cotLoading) is true, the request behind it
\* eventually completes: the flag is false again and a definitive outcome is
\* shown, a result or an error, on the success path, the success = false path
\* and the thrown-error path alike.
C17_EveryRequestResolves ==
    /\ loading ~> (/\ ~loading
                   /\ dataStatus.kind \in {"Downloaded", "Data calculated",
                                           "Error fetching data", "Error calculating"})
    /\ cotLoading ~> (~cotLoading /\ (cotData # Null \/ cotError # Null))

\* A fetch that threw has completed while handleFetchCOT is at its second
\* await.
C17_Witness ==
    /\ ~loading
    /\ dataStatus.kind = "Error fetching data"
    /\ error = Some("Error: sidecar failed")
    /\ cotLoading
    /\ \E i \in 1..Len(pending) : pending[i].cmd = "calculate_cot_metrics"

(***************************************************************************)
(* C18. While the app data directory is not initialized (appDataDir        *)
(* empty), handleFetchData and handleCalculate only report the error       *)
(* "App not initialized": no command is in flight and loading, chartData   *)
(* and dataStatus are as they were at the start.                           *)
(***************************************************************************)
C18_NotInitializedNotAttempted ==
    appDataDir = "" =>
        /\ pending = <<>>
        /\ ~loading
        /\ chartData = <<>>
        /\ dataStatus = [kind |-> "Not loaded"]
        /\ error \in {Null, Some("App not initialized")}

\* A handler was called before initialization and has reported it.
C18_Witness ==
    /\ appDataDir = ""
    /\ error = Some("App not initialized")
    /\ pending = <<>>
    /\ ~loading

(***************************************************************************)
(* C19. An invalid analysis year (the non-numeric value left when the year *)
(* input is cleared, or a year outside the allowed range) is reported as   *)
(* an input error and calculate_seasonality is not attempted for it: no    *)
(* calculate_seasonality in flight carries an invalid year.                *)
(***************************************************************************)
C19_InvalidYearNotAttempted ==
    \A i \in 1..Len(pending) :
        pending[i].cmd = "calculate_seasonality" => ValidYear(pending[i].year)

(***************************************************************************)
(* C20. Changing the analysis year triggers a re-calculation: once the     *)
(* selected year has been changed to another year, a                       *)
(* calculate_seasonality request for that year is eventually issued,       *)
(* without any further action of the user. The year before the current     *)
(* one is selected only by a change.                                       *)
(***************************************************************************)
C20_YearChangeRecalculates ==
    (selectedYear = 2010 + NumYears - 1)
        ~> (\E i \in 1..Len(pending) :
                /\ pending[i].cmd = "calculate_seasonality"
                /\ pending[i].year = 2010 + NumYears - 1)

(***************************************************************************)
(* C21. The fetch start date of an ingest is the epoch floor when the file *)
(* holds no series, and otherwise exactly the day after the series' last   *)
(* date; every row a call appends is dated after the last date the file    *)
(* had before the call, and on or after the start date.                    *)
(***************************************************************************)
C21_FetchStartsAfterLastDate ==
    [][\A p \in Files :
          IngestCalled(p) =>
              /\ last'[p].start = IF store[p] = <<>> THEN EpochFloor
                                  ELSE store[p][Len(store[p])].date + 1
              /\ \A i \in (Len(store[p]) + 1)..Len(store'[p]) :
                    /\ store'[p][i].date >= last'[p].start
                    /\ store[p] # <<>> => store'[p][i].date > store[p][Len(store[p])].date]_vars

\* One call started at the epoch floor on the other file, and the latest
\* call on this file started the day after its last date and appended a row.
C21_Witness ==
    \E p, q \in Files :
        /\ p # q
        /\ last[q].called
        /\ last[q].start = EpochFloor
        /\ last[p].called
        /\ last[p].start > EpochFloor
        /\ last[p].success
        /\ last[p].rows_added >= 1
        /\ Len(store[p]) > last[p].rows_added
        /\ store[p][Len(store[p]) - last[p].rows_added].date + 1 = last[p].start

(***************************************************************************)
(* C22. When the fetch start date is already past requestedThroughDate,    *)
(* ingest returns success = true with rows_added = 0 and last_date the     *)
(* existing last date and leaves the store unchanged, whatever the         *)
(* provider would have answered: it is not asked, and the outcome is never *)
(* a failure.                                                              *)
(***************************************************************************)
C22_AlreadyCurrentIsSuccess ==
    [][\A p \in Files :
          (IngestCalled(p) /\ last'[p].start > last'[p].through)
          => /\ last'[p].success
             /\ last'[p].rows_added = 0
             /\ last'[p].last_date = LastDate(store[p])
             /\ store'[p] = store[p]]_vars

\* A call for a date the file already covers, answered as up to date.
C22_Witness ==
    \E p \in Files :
        /\ last[p].called
        /\ last[p].start > last[p].through
        /\ store[p] # <<>>
        /\ last[p].success
        /\ last[p].rows_added = 0
        /\ last[p].last_date = Num(store[p][Len(store[p])].date)
        /\ last[p].message = "Data is already up to date"

(***************************************************************************)
(* C23. A request whose file has no data before the requested year is a    *)
(* no-data result, not an error: success = true, every window array all    *)
(* null over its NumDays slots, and an explanatory message.                *)
(***************************************************************************)
C23_NoHistoryIsNoDataResult ==
    (engResult # Null /\ {y \in CurveYears(series) : y < cutoffYear} = {}) =>
        /\ engResult.success
        /\ engResult.message # ""
        /\ \A n \in WindowSizes :
              /\ Len(WindowAvg(engResult, n)) = NumDays
              /\ \A d \in Days : WindowAvg(engResult, n)[d] = Null

\* The file's first year of data is the requested year itself.
C23_Witness ==
    /\ engResult # Null
    /\ {y \in CurveYears(series) : y < cutoffYear} = {}
    /\ cutoffYear \in CurveYears(series)
    /\ engResult.success
    /\ engResult.avg_10yr = AllNull
    /\ engResult.actual # AllNull
    /\ engResult.message = "No historical data"

(***************************************************************************)
(* C24. After every completed handleFetchCOT call exactly one of cotData   *)
(* and cotError is non-null: when the fetch and the calculation both       *)
(* succeeded, cotData is the calculation's result and cotError is null;    *)
(* when the fetch failed, the calculation failed or either threw, cotData  *)
(* is null and cotError is not.                                            *)
(***************************************************************************)
C24_ExactlyOneOfDataAndError ==
    [][\A i \in 1..Len(pending) :
          (pending[i].handler = "handleFetchCOT" /\ pending' = Remove(pending, i))
          => /\ (cotData' # Null) # (cotError' # Null)
             /\ cotData' # Null =>
                   /\ pending[i].cmd = "calculate_cot_metrics"
                   /\ cotData'.success
                   /\ cotData' = CotMetrics(pending[i].asset, pending[i].years)]_vars

\* A handleFetchCOT call has completed with data, at rest, after an earlier
\* one had been started for another period.
C24_Witness ==
    /\ ~cotLoading
    /\ cotData # Null
    /\ cotError = Null
    /\ cotPeriod = 2
    /\ cotData = CotMetrics(ASSETS[1], 2)
    /\ \A i \in 1..Len(pending) : pending[i].handler # "handleFetchCOT"

\* No fetch_cot_data or calculate_cot_metrics is in flight.
NoCotRequestInFlight ==
    \A i \in 1..Len(pending) :
        pending[i].cmd \notin {"fetch_cot_data", "calculate_cot_metrics"}

\* cotData is what calculate_cot_metrics returns for years = cotPeriod.
CotDataIsForCurrentPeriod ==
    \E a \in SelectableAssets : cotData = CotMetrics(a, cotPeriod)

(***************************************************************************)
(* C25 as stated. Whenever no COT request is in flight and cotData is      *)
(* non-null, cotData is the result of calculate_cot_metrics for years =    *)
(* the current cotPeriod, also after calls whose calculation failed or     *)
(* threw.                                                                  *)
(***************************************************************************)
C25_CotDataMatchesPeriod ==
    (NoCotRequestInFlight /\ cotData # Null) => CotDataIsForCurrentPeriod

(***************************************************************************)
(* C25 amended. Whenever no COT request is in flight, cotData is non-null  *)
(* and cotError is null, cotData is the result of calculate_cot_metrics    *)
(* for years = the current cotPeriod; after a handleCOTPeriodChange whose  *)
(* calculation failed or threw, cotError is set and cotData is still the   *)
(* result for the period before the change.                                *)
(***************************************************************************)
C25_CotDataMatchesPeriodUnlessError ==
    (NoCotRequestInFlight /\ cotData # Null /\ cotError = Null)
        => CotDataIsForCurrentPeriod

\* A period change has completed with the three-year result.
C25_Witness ==
    /\ NoCotRequestInFlight
    /\ ~cotLoading
    /\ cotError = Null
    /\ cotPeriod = 3
    /\ cotData = CotMetrics(ASSETS[1], 3)
    /\ cotData # CotMetrics(ASSETS[1], 1)

\* The chart rows handleCalculate builds from the engine's answer for the
\* selected asset's file and the selected year.
ChartOfSelection ==
    Transform(SeasonalityOf[selectedAsset, selectedYear], selectedYear)

(***************************************************************************)
(* C27. Whenever chartData is non-empty and no request is in flight, the   *)
(* displayed chartData was computed from the store of the currently        *)
(* selected asset for the currently selected year, its target-year series  *)
(* keyed by the current selectedYear, after any interleaving of asset      *)
(* changes, year changes, fetches and calculations.                        *)
(***************************************************************************)
C27_ChartIsForCurrentSelection ==
    (chartData # <<>> /\ pending = <<>>)
        => /\ selectedYear \in SelectableYears
           /\ \A d \in DOMAIN chartData : chartData[d].yearKey = selectedYear
           /\ chartData = ChartOfSelection

\* The series type a Tauri command reads or writes.
SeriesType(cmd) ==
    IF cmd \in {"fetch_data", "calculate_seasonality"} THEN "price" ELSE "cot"

\* The store path of an asset's series of one type.
StorePath(dir, asset, type) ==
    IF type = "price" THEN DailyPath(dir, asset) ELSE CotPath(dir, asset)

AssetIds == {ASSETS[i] : i \in DOMAIN ASSETS}

\* The values appDataDir takes: unset, and the directory appDataDir() returns.
AppDataDirs == {"", "/appdata"}

\* No two entries of ASSETS have the same id, and no two (asset, series
\* type) pairs have the same store path.
PathsPairwiseDistinct ==
    /\ \A i, j \in DOMAIN ASSETS : i # j => ASSETS[i] # ASSETS[j]
    /\ \A dir \in AppDataDirs : \A a, b \in AssetIds : \A s, t \in {"price", "cot"} :
          (a # b \/ s # t) => StorePath(dir, a, s) # StorePath(dir, b, t)

(***************************************************************************)
(* C30. Store paths are isolated per asset and per series type: the asset  *)
(* ids in ASSETS are pairwise distinct, two different assets never map to  *)
(* the same store path, for one asset the price path and the COT path      *)
(* differ, and the path of a calculate request for an asset equals the     *)
(* path of the fetch request for that asset and series type.               *)
(***************************************************************************)
C30_StorePathsIsolated ==
    /\ appDataDir \in AppDataDirs
    /\ PathsPairwiseDistinct
    /\ \A i \in 1..Len(pending) :
          pending[i].filePath
              = StorePath(appDataDir, pending[i].asset, SeriesType(pending[i].cmd))
    /\ \A i, j \in 1..Len(pending) :
          (pending[i].filePath = pending[j].filePath)
              <=> /\ pending[i].asset = pending[j].asset
                  /\ SeriesType(pending[i].cmd) = SeriesType(pending[j].cmd)

\* A price calculation and the COT calculation that follows a COT fetch are
\* in flight for the same asset.
C30_Witness ==
    \E i, j \in 1..Len(pending) :
        /\ pending[i].cmd = "calculate_seasonality"
        /\ pending[j].cmd = "calculate_cot_metrics"
        /\ pending[j].handler = "handleFetchCOT"
        /\ pending[i].asset = pending[j].asset
        /\ pending[i].filePath # pending[j].filePath

(***************************************************************************)
(* The seasonality chart: the selectors and the Calculate button of the    *)
(* Sidebar, the calculation in flight and the pointer events of the chart. *)
(***************************************************************************)
NextChart ==
    \/ InitializeApp
    \/ \E a \in SelectableAssets : SelectAsset(a)
    \/ \E y \in YearInputs : SelectYear(y)
    \/ ClickCalculate
    \/ ResolveCalculate
    \/ \E clientY \in ClientYs : ChartMouseDown(clientY)
    \/ \E clientY \in ClientYs : ChartMouseMove(clientY)
    \/ ChartMouseUp
    \/ ChartDoubleClick

SpecChart == Init /\ [][NextChart]_vars

\* A step in which the handleCalculate call in flight as pending[i] ends.
CalculateEnds(i) ==
    /\ i \in 1..Len(pending)
    /\ pending[i].handler = "handleCalculate"
    /\ pending' = Remove(pending, i)

(***************************************************************************)
(* C26. A handleCalculate call that ends in failure (success = false or a  *)
(* thrown error) leaves chartData and yAxisDomain exactly as they were     *)
(* before the call: only error, dataStatus and loading change. A           *)
(* successful call replaces chartData and resets yAxisDomain to            *)
(* ['auto', 'auto'].                                                       *)
(***************************************************************************)
C26_FailedCalculateLeavesChart ==
    [][\A i \in 1..Len(pending) :
          CalculateEnds(i) =>
             /\ ~loading'
             /\ \/ /\ dataStatus'.kind = "Error calculating"
                   /\ error' # Null
                   /\ chartData' = chartData
                   /\ yAxisDomain' = yAxisDomain
                \/ /\ dataStatus' = [kind |-> "Data calculated", year |-> pending[i].year]
                   /\ error' = error
                   /\ pending[i].year \in SelectableYears
                   /\ chartData' = Transform(SeasonalityOf[pending[i].asset, pending[i].year],
                                             pending[i].year)
                   /\ yAxisDomain' = AutoDomain
             /\ UNCHANGED <<appDataDir, selectedAsset, selectedYear, cotData, cotLoading,
                            cotPeriod, cotError, isDragging, dragStart>>]_vars

\* A calculation has failed over a chart whose y-axis a drag had set.
C26_Witness ==
    /\ dataStatus.kind = "Error calculating"
    /\ ~loading
    /\ pending = <<>>
    /\ chartData # <<>>
    /\ ~IsAuto(yAxisDomain)

(***************************************************************************)
(* C28. Drag state is consistent in every reachable state: isDragging is   *)
(* true if and only if dragStart is non-null; handleChartMouseDown starts  *)
(* a drag only when chartData holds at least one non-null value for the    *)
(* selected year; handleChartMouseMove changes yAxisDomain only while a    *)
(* drag is active; handleChartMouseUp (also fired on mouse leave) always   *)
(* ends the drag.                                                          *)
(***************************************************************************)
C28_DragStateConsistent ==
    /\ [](isDragging <=> dragStart # Null)
    /\ [][(\E clientY \in ClientYs : ChartMouseDown(clientY)) =>
            \E d \in DOMAIN chartData :
                chartData[d].yearKey = selectedYear /\ chartData[d].yearVal # Null]_vars
    /\ [][(~isDragging /\ isDragging') =>
            \E d \in DOMAIN chartData :
                chartData[d].yearKey = selectedYear /\ chartData[d].yearVal # Null]_vars
    /\ [][(yAxisDomain' # yAxisDomain /\ ~IsAuto(yAxisDomain')) =>
            (isDragging /\ dragStart # Null)]_vars
    /\ [][ChartMouseUp => (~isDragging' /\ dragStart' = Null)]_vars

\* A drag has moved the y-axis and was then ended.
C28_Witness ==
    /\ ~isDragging
    /\ dragStart = Null
    /\ ~IsAuto(yAxisDomain)
    /\ \E d \in DOMAIN chartData :
          chartData[d].yearKey = selectedYear /\ chartData[d].yearVal # Null

(***************************************************************************)
(* C29. Whenever yAxisDomain holds numeric bounds [min, max] produced by a *)
(* drag, min <= max holds for every vertical drag distance deltaY          *)
(* (positive or negative), and the midpoint (min + max) / 2 equals the     *)
(* midpoint of the domain captured at mouse-down.                          *)
(***************************************************************************)
C29_DragKeepsOrderAndMidpoint ==
    ~IsAuto(yAxisDomain) =>
        /\ yAxisDomain[2] <= yAxisDomain[3]
        /\ dragStart # Null =>
              yAxisDomain[2] + yAxisDomain[3] = dragStart.domain[1] + dragStart.domain[2]
====
